---------------------------- MODULE Spec2Model ----------------------------
(***************************************************************************)
(* A model of the proctoring bot's quiz flow and spreadsheet storage:      *)
(*   - StudentHandlersChain (student_handlers_chain.py): the three chat    *)
(*     handlers that drive one user's quiz session;                        *)
(*   - TestsSpreadsheetHandler (tests_spreadsheet_handler.py): loading a   *)
(*     test from a spreadsheet, saving it under surveys/, and recording    *)
(*     results on a "<test>_result" page;                                  *)
(*   - SpreadsheetHandler (spreadsheet_handler.py): add_row, remove_row    *)
(*     and get_row_by_first_element on a sheet keyed by its first column,  *)
(*     and create_spreadsheet, which provisions the sheets of the schema.  *)
(* The chat transport and the spreadsheet backend are modelled at the      *)
(* interface the code uses (callback payload fields, value ranges, pages). *)
(***************************************************************************)
EXTENDS Integers, Sequences, FiniteSets, TLC

VARIABLES
    fsm_state,          \* aiogram FSM state of the user: "None" or the survey state
    data_type,          \* data["type"] of the user's FSM storage ("missing": no key)
    tests,              \* data["tests"] of the user's FSM storage
    message,            \* the last message the quiz handlers sent or edited
    error,              \* exception raised by the quiz handler that ended last ("none")
    tasks,              \* the user's updates in handling: slot -> the handler's position and locals
    surveys,            \* the files of surveys/ in the working directory: test name -> JSON
    surveys_dir,        \* whether the working directory has surveys/ (see SurveysDirs)
    current_test_id,    \* TestsSpreadsheetHandler._current_test_id
    books,              \* spreadsheets of the backend: id -> title of a results page -> rows
    record_error,       \* exception raised by the last TestsSpreadsheetHandler call
    record_calls,       \* history: add_result_to_worksheet calls per spreadsheet and test
    drawn,              \* spreadsheet "G" of the backend: its title and the rows of its test page
    loaded,             \* what the last load_test_by_link call returned
    sheet,              \* the grid of the accessor's sheet, row 1 first
    ret,                \* the last SpreadsheetHandler call and its outcome
    pending,            \* caller -> its add_row call: the locals it holds and its outcome
    sheet_attributes,   \* SpreadsheetHandler._sheet_attributes, in declaration order
    created_sheets,     \* SpreadsheetHandler._created_sheets
    requests            \* the provisioning requests the backend has executed

vars == <<fsm_state, data_type, tests, message, error, tasks, surveys, surveys_dir,
          current_test_id, books, record_error, record_calls, drawn, loaded,
          sheet, ret, pending, sheet_attributes, created_sheets, requests>>

quizVars   == <<fsm_state, data_type, tests, message, error, tasks>>
recordVars == <<current_test_id, books, record_error, record_calls, drawn, loaded, surveys_dir>>
provisionVars == <<sheet_attributes, created_sheets, requests>>
tableVars  == <<sheet, ret, pending, provisionVars>>

-----------------------------------------------------------------------------
(* Bounds of the model. *)

MaxAnswers == 3         \* longest transcript a session may accumulate
MaxRecords == 3         \* data rows a results page may hold
MaxRows == 3            \* rows of the accessor's sheet that may be occupied
MaxGridRows == 3        \* data rows of a drawn test grid
MaxSheets == 3          \* sheets a schema may declare

-----------------------------------------------------------------------------
(* Python list indexing: list[i] accepts -len <= i < len. *)

PyIndexOK(list, i) == (i >= 0 - Len(list)) /\ (i < Len(list))

PyIndex(list, i) == IF i >= 0 THEN list[i + 1] ELSE list[Len(list) + i + 1]

-----------------------------------------------------------------------------
(* The files surveys/<name>.json.  A file holds a JSON array of objects; an *)
(* object is the set of its members <<key, string>>.                       *)

\* json.dump(test, f): each question dict becomes an object.
JsonDump(test) ==
    [i \in 1..Len(test) |-> {<<k, test[i][k]>> : k \in DOMAIN test[i]}]

\* json.load(json_file): each object becomes a dict.
JsonLoad(doc) ==
    [i \in 1..Len(doc) |->
        [k \in {m[1] : m \in doc[i]} |-> (CHOOSE m \in doc[i] : m[1] = k)[2]]]

\* with open(f'surveys/{survey_sheet_name}.json') as json_file: json.load(json_file)
ReadSurvey(files, survey_sheet_name) == JsonLoad(files[survey_sheet_name])


-----------------------------------------------------------------------------
(* The quiz session: StudentHandlersChain.                                 *)
(* Field names: Vopros stands for the key 'Вопрос' (the prompt), pravilny  *)
(* for 'правильный' (the correct answer).                                  *)

NoState == "None"
ReadyState == "student_ready_to_pass_test"

Roles == {"student", "teacher"}

NoTests == [present |-> FALSE, is_finished |-> FALSE, answers |-> <<>>, test_name |-> ""]

\* A message: its text (for the summary, the two numbers it formats) and, for a
\* question, the arguments the answers keyboard was built from.
NoMessage == [kind |-> "none", text |-> "", correct |-> 0, total |-> 0,
              survey |-> "", number |-> 0]

\* tests={"is_finished": False, "answers": {}, "test_name": survey_sheet_name}
FreshTests(survey_sheet_name) ==
    [present |-> TRUE, is_finished |-> FALSE, answers |-> <<>>,
     test_name |-> survey_sheet_name]

\* int(separated_data[2]): the decimal strings the model delivers.
IntTokens == <<"0", "1", "2", "3">>

IsInt(s) == \E i \in 1..Len(IntTokens) : IntTokens[i] = s

ParseInt(s) == (CHOOSE i \in 1..Len(IntTokens) : IntTokens[i] = s) - 1

\* Mutant of AnswerRecordFor: the chosen answer is compared with the prompt.
AnswerRecordComparesPrompt(survey, question_number, chosen) ==
    [Vopros |-> PyIndex(survey, question_number - 1).Vopros,
     is_correct |-> (PyIndex(survey, question_number - 1).Vopros = chosen)]

\* The answer record appended for a "question" callback.
AnswerRecordFor(survey, question_number, chosen) ==
    [Vopros |-> PyIndex(survey, question_number - 1).Vopros,
     is_correct |-> (PyIndex(survey, question_number - 1).pravilny = chosen)]

\* Mutant of HasNextQuestion: the last question is taken for the end.
HasNextQuestionButLast(question_number, survey) == question_number + 1 < Len(survey)

\* if question_number < len(survey): a further question is shown.
HasNextQuestion(question_number, survey) == question_number < Len(survey)

\* correct_answers: the loop over answers counting is_correct.
CorrectAnswers(answers) == Cardinality({i \in 1..Len(answers) : answers[i].is_correct})

\* The text of the final message, as the pair it formats.
SummaryMessage(answers) ==
    [NoMessage EXCEPT !.kind = "summary", !.correct = CorrectAnswers(answers),
                      !.total = Len(answers)]

\* edit_text(text=current_question['Вопрос'], reply_markup=get_answers_keyboard(
\*     current_question, question_number, separated_data[1]))
QuestionMessage(question, question_number, survey_sheet_name) ==
    [NoMessage EXCEPT !.kind = "question", !.text = question.Vopros,
                      !.survey = survey_sheet_name, !.number = question_number]

\* SurveyStudentStates.next() from the state it read: the state after it in
\* the group, the first state of the group when it read none of the group's.
NextState(state_name) == IF state_name = ReadyState THEN NoState ELSE ReadyState

\* The updates of one user that may be in handling at the same time, in the
\* order their slots are taken.
Slots == <<"s1", "s2">>

SlotSet == {Slots[i] : i \in 1..Len(Slots)}

\* A handler call suspended at an await: the handler, the await it is to
\* resume from (pc), and its locals: separated_data, tests (as read at line
\* 56 and changed since), survey (as loaded at line 59) and the state name
\* SurveyStudentStates.next() read.
NoTask == [handler |-> "none", pc |-> "", separated_data |-> <<>>, tests |-> NoTests,
           survey |-> <<>>, state_name |-> ""]

InHandling == {slot \in SlotSet : tasks[slot].handler # "none"}

FreeSlot == Slots[CHOOSE i \in 1..Len(Slots) :
                     /\ Slots[i] \notin InHandling
                     /\ \A j \in 1..(i - 1) : Slots[j] \in InHandling]

\* The handler call goes on from where it is, suspended at the await `pc`.
Suspends(task, pc) == [task |-> [task EXCEPT !.pc = pc], error |-> ""]

\* The handler call ends: it raises `exc`, or returns ("none").
Ends(exc) == [task |-> NoTask, error |-> exc]

\* What a resumed call did to its slot and to the last outcome.
Becomes(slot, outcome) ==
    /\ tasks' = [tasks EXCEPT ![slot] = outcome.task]
    /\ error' = IF outcome.error = "" THEN error ELSE outcome.error

\* The dispatcher starts a handler: the call runs to its first await.
Starts(handler, pc, separated_data) ==
    /\ InHandling # SlotSet
    /\ tasks' = [tasks EXCEPT ![FreeSlot] =
                    [NoTask EXCEPT !.handler = handler, !.pc = pc,
                                   !.separated_data = separated_data]]

\* ready_check_survey_handler: the /ready command (handled in the default
\* state), up to `await state.get_data()` (line 37).
ready_check_survey_handler ==
    /\ fsm_state = NoState
    /\ Starts("ready_check_survey_handler", "get_data_37", <<>>)
    /\ UNCHANGED <<fsm_state, data_type, tests, message, error>>

\* ready_check_survey_handler resumed: from line 37 with the data (line 38),
\* or at the effect of `await message.answer(...)` (line 39).
ready_check_survey_handler_resume(slot) ==
    /\ tasks[slot].handler = "ready_check_survey_handler"
    /\ IF tasks[slot].pc = "get_data_37"
         THEN /\ Becomes(slot, IF data_type = "missing" THEN Ends("KeyError")
                               ELSE IF data_type = "student"
                                 THEN Suspends(tasks[slot], "answer_39")
                               ELSE Ends("none"))
              /\ UNCHANGED message
         ELSE /\ message' = [NoMessage EXCEPT !.kind = "keyboard"]
              /\ Becomes(slot, Ends("none"))
    /\ UNCHANGED <<fsm_state, data_type, tests>>

\* ready_to_pass_survey_handler: a callback whose data starts with "ready"
\* (handled in the default state), up to `await state.get_data()` (line 45).
ready_to_pass_survey_handler ==
    /\ fsm_state = NoState
    /\ Starts("ready_to_pass_survey_handler", "get_data_45", <<>>)
    /\ UNCHANGED <<fsm_state, data_type, tests, message, error>>

\* ready_to_pass_survey_handler resumed: from line 45 with the data, which it
\* does not use, at the effect of the edit (line 47), or at the effect of
\* student_ready_to_pass_test.set() (line 48).
ready_to_pass_survey_handler_resume(slot) ==
    /\ tasks[slot].handler = "ready_to_pass_survey_handler"
    /\ IF tasks[slot].pc = "get_data_45"
         THEN /\ Becomes(slot, Suspends(tasks[slot], "edit_text_47"))
              /\ UNCHANGED <<fsm_state, message>>
       ELSE IF tasks[slot].pc = "edit_text_47"
         THEN /\ message' = [NoMessage EXCEPT !.kind = "wait"]
              /\ Becomes(slot, Suspends(tasks[slot], "set_48"))
              /\ UNCHANGED fsm_state
         ELSE /\ fsm_state' = ReadyState
              /\ Becomes(slot, Ends("none"))
              /\ UNCHANGED message
    /\ UNCHANGED <<data_type, tests>>

\* int(separated_data[2])
QuestionNumber(task) == ParseInt(task.separated_data[3])

\* passing_test_handler from line 79 to its next await: the edit that shows
\* the next question (line 83), or the update that stores the finished
\* transcript (line 102).
Advance(task) ==
    IF HasNextQuestion(QuestionNumber(task), task.survey)
      THEN IF "Vopros" \notin DOMAIN task.survey[QuestionNumber(task) + 1]
             THEN Ends("KeyError")
             ELSE Suspends(task, "edit_text_83")
    ELSE IF ~task.tests.present
      THEN Ends("TypeError")
    ELSE Suspends([task EXCEPT !.tests.is_finished = TRUE], "update_data_102")

\* passing_test_handler from line 62 to its next await: for a "question"
\* callback the update that stores the transcript with the answer appended
\* (line 77).
AnswerAndAdvance(task) ==
    LET separated_data == task.separated_data
        survey == task.survey
    IN  IF Len(separated_data) < 3
          THEN Ends("IndexError")
        ELSE IF ~IsInt(separated_data[3])
          THEN Ends("ValueError")
        ELSE IF separated_data[1] # "question"
          THEN Advance(task)
        ELSE IF ~PyIndexOK(survey, QuestionNumber(task) - 1)
          THEN Ends("IndexError")
        ELSE IF ~task.tests.present
          THEN Ends("AttributeError")
        ELSE IF "pravilny" \notin DOMAIN PyIndex(survey, QuestionNumber(task) - 1)
          THEN Ends("KeyError")
        ELSE IF Len(separated_data) < 4
          THEN Ends("IndexError")
        ELSE IF "Vopros" \notin DOMAIN PyIndex(survey, QuestionNumber(task) - 1)
          THEN Ends("KeyError")
        ELSE Suspends([task EXCEPT !.tests.answers =
                          Append(@, AnswerRecordFor(survey, QuestionNumber(task),
                                                    separated_data[4]))],
                      "update_data_77")

\* passing_test_handler from line 56, with the data of line 55, to its next
\* await: `stored` is data["tests"], `files` the files of surveys/.
OpenSurvey(task, stored, files) ==
    IF task.separated_data[2] \notin DOMAIN files
      THEN Ends("FileNotFoundError")
      ELSE LET opened == [task EXCEPT !.tests = stored,
                                      !.survey = ReadSurvey(files, task.separated_data[2])]
           IN  IF ~stored.present
                 THEN Suspends(opened, "update_data_61")
                 ELSE AnswerAndAdvance(opened)

\* passing_test_handler: any callback with data, in the survey state, up to
\* `await state.get_data()` (line 55).  separated_data is
\* callback_query.data.split(";").
passing_test_handler(separated_data) ==
    /\ fsm_state = ReadyState
    /\ Len(tests.answers) < MaxAnswers
    /\ IF Len(separated_data) < 2
         THEN /\ InHandling # SlotSet
              /\ error' = "IndexError"
              /\ UNCHANGED tasks
         ELSE /\ Starts("passing_test_handler", "get_data_55", separated_data)
              /\ UNCHANGED error
    /\ UNCHANGED <<fsm_state, data_type, tests, message>>

\* passing_test_handler resumed from the await it is suspended at.
passing_test_handler_resume(slot) ==
    LET task == tasks[slot]
    IN  /\ task.handler = "passing_test_handler"
        /\ UNCHANGED data_type
        /\ CASE task.pc = "get_data_55" ->
                  /\ Len(tests.answers) < MaxAnswers
                  /\ Becomes(slot, OpenSurvey(task, tests, surveys))
                  /\ UNCHANGED <<fsm_state, tests, message>>
             [] task.pc = "update_data_61" ->
                  /\ tests' = FreshTests(task.separated_data[2])
                  /\ Becomes(slot, AnswerAndAdvance(task))
                  /\ UNCHANGED <<fsm_state, message>>
             [] task.pc = "update_data_77" ->
                  /\ tests' = task.tests
                  /\ Becomes(slot, Advance(task))
                  /\ UNCHANGED <<fsm_state, message>>
             [] task.pc = "edit_text_83" ->
                  /\ message' = QuestionMessage(task.survey[QuestionNumber(task) + 1],
                                                QuestionNumber(task), task.separated_data[2])
                  /\ Becomes(slot, Suspends(task, "answer_84"))
                  /\ UNCHANGED <<fsm_state, tests>>
             [] task.pc = "answer_84" ->
                  /\ Becomes(slot, Ends("none"))
                  /\ UNCHANGED <<fsm_state, tests, message>>
             [] task.pc = "update_data_102" ->
                  /\ tests' = task.tests
                  /\ Becomes(slot, Suspends(task, "get_state_104"))
                  /\ UNCHANGED <<fsm_state, message>>
             [] task.pc = "get_state_104" ->
                  /\ Becomes(slot, Suspends([task EXCEPT !.state_name = fsm_state],
                                            "set_state_104"))
                  /\ UNCHANGED <<fsm_state, tests, message>>
             [] task.pc = "set_state_104" ->
                  /\ fsm_state' = NextState(task.state_name)
                  /\ Becomes(slot, Suspends(task, "edit_text_105"))
                  /\ UNCHANGED <<tests, message>>
             [] task.pc = "edit_text_105" ->
                  /\ message' = SummaryMessage(task.tests.answers)
                  /\ Becomes(slot, Suspends(task, "answer_106"))
                  /\ UNCHANGED <<fsm_state, tests>>
             [] task.pc = "answer_106" ->
                  /\ Becomes(slot, Ends("none"))
                  /\ UNCHANGED <<fsm_state, tests, message>>

-----------------------------------------------------------------------------
(* The test spreadsheets of the backend and TestsSpreadsheetHandler.       *)
(* A cell of the grid data is [len, formattedValue]: len is the number of  *)
(* fields the backend returned for the cell (len(string) in _get_test),    *)
(* and the field formattedValue is there only when the cell has a value; a *)
(* row is [len, values], len being 0 for an empty rowData entry.           *)
(* "Test" stands for the page title 'Тест', "Student", "Time", "Result",   *)
(* "Right", "Wrong" for the Russian words of the results page.             *)

BookIds == {"A", "B"}

\* The spreadsheets a test can be read from: A, B and the drawn one.
SourceIds == BookIds \cup {"G"}

\* A cell with a value (value, effective value, formatted value, format).
Filled(s) == [len |-> 4, formattedValue |-> s]

\* A formatted cell without a value: it has no formattedValue to read.
Unfilled == [len |-> 2]

GridRow(cells) == [len |-> 1, values |-> cells]

EmptyGridRow == [len |-> 0, values |-> <<>>]

\* spreadsheets().get(...)["properties"]["title"] of each spreadsheet.
BookTitle(id) == IF id = "A" THEN "T1" ELSE IF id = "B" THEN "T2" ELSE drawn.title

\* sheet["data"][0]["rowData"] of the page "Test" of each spreadsheet.
BookRowData(id) ==
    IF id = "A"
      THEN << GridRow(<<Filled("Vopros"), Filled("pravilny")>>),
              GridRow(<<Filled("P1"), Filled("a")>>) >>
    ELSE IF id = "B"
      THEN << GridRow(<<Filled("Vopros"), Filled("pravilny")>>),
              GridRow(<<Filled("P2"), Filled("a")>>),
              EmptyGridRow,
              GridRow(<<Filled("P3"), Filled("b")>>) >>
    ELSE drawn.rowData

\* len(string) > 3: the cell counts as populated.
PopulatedOver == 3

\* raw_data: the rowData entries with len(sheet_data) > 0.
RawData(rowData) == SelectSeq(rowData, LAMBDA sheet_data : sheet_data.len > 0)

\* keys: the formattedValue of each cell of the first raw row.
HeaderKeys(raw_data) ==
    [i \in 1..Len(raw_data[1].values) |-> raw_data[1].values[i].formattedValue]

\* Mutant of CopiedCells: the threshold is one field higher.
CopiedCellsOverFour(element) ==
    {i \in 1..Len(element.values) : element.values[i].len > PopulatedOver + 1}

\* The indices of the cells of a row that _get_test copies.
CopiedCells(element) ==
    {i \in 1..Len(element.values) : element.values[i].len > PopulatedOver}

\* question: keys[index] -> formattedValue for each copied cell (a later cell
\* under the same key overwrites an earlier one).
QuestionOf(keys, element) ==
    [k \in {keys[i] : i \in CopiedCells(element)} |->
        LET last == CHOOSE i \in CopiedCells(element) :
                        /\ keys[i] = k
                        /\ \A j \in CopiedCells(element) : keys[j] = k => j <= i
        IN  element.values[last].formattedValue]

\* list.remove(el) for an empty el: the first empty question goes.
RECURSIVE RemoveFirstEmpty(_)
RemoveFirstEmpty(survey) ==
    IF survey = <<>> THEN <<>>
    ELSE IF DOMAIN Head(survey) = {} THEN Tail(survey)
    ELSE <<Head(survey)>> \o RemoveFirstEmpty(Tail(survey))

\* for el in survey: if len(el) < 1: survey.remove(el)
\* (the iterator's position i advances while the list shrinks under it).
RECURSIVE RemoveEmptyLoop(_, _)
RemoveEmptyLoop(survey, i) ==
    IF i >= Len(survey) THEN survey
    ELSE IF DOMAIN survey[i + 1] = {}
      THEN RemoveEmptyLoop(RemoveFirstEmpty(survey), i + 1)
      ELSE RemoveEmptyLoop(survey, i + 1)

\* string["formattedValue"] raises KeyError for a cell without the field.
HasFormattedValue(string) == "formattedValue" \in DOMAIN string

\* The copied cells <<row, index>> of the data rows at which line 75 raises:
\* the cell has no formattedValue, or the header has no key at its index.
FailingCells(raw_data) ==
    {c \in UNION {{<<r, i>> : i \in CopiedCells(raw_data[r])} : r \in 2..Len(raw_data)} :
        \/ ~HasFormattedValue(raw_data[c[1]].values[c[2]])
        \/ c[2] > Len(raw_data[1].values)}

\* The first of them in the order of the loops, and what it raises: the
\* right-hand side string["formattedValue"] is evaluated before keys[index].
FirstFailure(raw_data) ==
    LET c == CHOOSE c \in FailingCells(raw_data) :
                 \A d \in FailingCells(raw_data) :
                     c[1] < d[1] \/ (c[1] = d[1] /\ c[2] <= d[2])
    IN  IF ~HasFormattedValue(raw_data[c[1]].values[c[2]]) THEN "KeyError" ELSE "IndexError"

\* _get_test on the grid of an existing spreadsheet, in a working directory
\* `dir`: the outcome and the (test_name, survey) it saves and returns.
GetTest(dir, test_name, rowData) ==
    LET raw_data == RawData(rowData)
    IN  IF raw_data = <<>>
          THEN [error |-> "IndexError", test_name |-> "", survey |-> <<>>]
        ELSE IF \E i \in 1..Len(raw_data[1].values) :
                    ~HasFormattedValue(raw_data[1].values[i])
          THEN [error |-> "KeyError", test_name |-> "", survey |-> <<>>]
        ELSE IF FailingCells(raw_data) # {}
          THEN [error |-> FirstFailure(raw_data), test_name |-> "", survey |-> <<>>]
        ELSE IF test_name # "" /\ dir = "absent"
          THEN [error |-> "FileNotFoundError", test_name |-> "", survey |-> <<>>]
        ELSE [error |-> "none", test_name |-> test_name,
              survey |-> RemoveEmptyLoop(
                  [r \in 1..(Len(raw_data) - 1) |->
                      QuestionOf(HeaderKeys(raw_data), raw_data[r + 1])], 0)]

\* The tuple (test_name, survey) a call returned; NoLoad: it raised.
Returned(test_name, survey) == [returned |-> TRUE, test_name |-> test_name, survey |-> survey]

NoLoad == [returned |-> FALSE, test_name |-> "", survey |-> <<>>]

\* The working directory with respect to surveys/: the directory is there;
\* or it is not, and the path line 89 builds from sys.argv[0] with a
\* backslash names another place (any POSIX system, or a launch from another
\* directory); or it is not, and that path names it (Windows, launched by a
\* path into the working directory), so that os.makedirs creates it.
SurveysDirs == {"present", "absent", "made_on_save"}

\* _save_test: nothing happens for the name ""; otherwise os.makedirs runs
\* (line 90) and the file surveys/<test_name>.json is opened for writing
\* (line 91), which fails without the directory.
SaveTest(dir, files, test_name, test) ==
    IF test_name = ""
      THEN [error |-> "none", dir |-> dir, files |-> files]
    ELSE IF dir = "absent"
      THEN [error |-> "FileNotFoundError", dir |-> dir, files |-> files]
    ELSE [error |-> "none", dir |-> "present",
          files |-> [n \in (DOMAIN files) \cup {test_name} |->
                        IF n = test_name THEN JsonDump(test) ELSE files[n]]]

\* _save_test(test_name, test), called on its own.
save_test(test_name, test) ==
    LET saved == SaveTest(surveys_dir, surveys, test_name, test)
    IN  /\ surveys' = saved.files
        /\ surveys_dir' = saved.dir
        /\ record_error' = saved.error
        /\ loaded' = NoLoad
        /\ UNCHANGED <<current_test_id, books, record_calls, drawn>>

\* The read of passing_test_handler (lines 58-59), on its own: the survey it
\* loads, or FileNotFoundError.
open_survey(survey_sheet_name) ==
    /\ IF survey_sheet_name \in DOMAIN surveys
         THEN /\ loaded' = Returned(survey_sheet_name, ReadSurvey(surveys, survey_sheet_name))
              /\ record_error' = "none"
         ELSE /\ loaded' = NoLoad
              /\ record_error' = "FileNotFoundError"
    /\ UNCHANGED <<surveys, surveys_dir, current_test_id, books, record_calls, drawn>>

\* url.split("/"), as the model delivers it.
UrlOf(id) == <<"https:", "", "docs.google.com", "spreadsheets", "d", id, "edit">>

Urls == {UrlOf("A"), UrlOf("B"), UrlOf("Z"), <<"https:", "", "example.org">>}

\* url_details.index("d")
IndexOfD(url_details) == CHOOSE i \in 1..Len(url_details) :
    /\ url_details[i] = "d"
    /\ \A j \in 1..(i - 1) : url_details[j] # "d"

\* load_test_by_link(url); get_fails: the backend answers the read with HttpError.
load_test_by_link(url_details, get_fails) ==
    IF ~\E i \in 1..Len(url_details) : url_details[i] = "d"
      THEN /\ record_error' = "ValueError"
           /\ loaded' = NoLoad
           /\ UNCHANGED <<current_test_id, surveys, surveys_dir, books, record_calls, drawn>>
    ELSE IF IndexOfD(url_details) + 1 > Len(url_details)
      THEN /\ record_error' = "IndexError"
           /\ loaded' = NoLoad
           /\ UNCHANGED <<current_test_id, surveys, surveys_dir, books, record_calls, drawn>>
    ELSE LET spreadsheet_id == url_details[IndexOfD(url_details) + 1]
             got == GetTest(surveys_dir, BookTitle(spreadsheet_id),
                            BookRowData(spreadsheet_id))
             saved == SaveTest(surveys_dir, surveys, got.test_name, got.survey)
         IN  /\ current_test_id' = spreadsheet_id
             /\ IF get_fails \/ spreadsheet_id \notin SourceIds
                  THEN /\ record_error' = "none"
                       /\ loaded' = Returned("", <<>>)
                       /\ UNCHANGED <<surveys, surveys_dir>>
                  ELSE /\ record_error' = got.error
                       /\ loaded' = IF got.error = "none"
                                      THEN Returned(got.test_name, got.survey)
                                      ELSE NoLoad
                       /\ surveys' = IF got.error = "none" THEN saved.files ELSE surveys
                       /\ surveys_dir' = IF got.error = "none" THEN saved.dir
                                                               ELSE surveys_dir
             /\ UNCHANGED <<books, record_calls, drawn>>


TestNames == {"T1", "T2"}

Users == {"u1", "u2"}

Times == {"t1"}

\* result_list arguments: transcripts as passing_test_handler builds them.
ResultLists ==
    { << [Vopros |-> "P1", is_correct |-> TRUE] >>,
      << [Vopros |-> "P2", is_correct |-> FALSE], [Vopros |-> "P3", is_correct |-> TRUE] >> }

\* _get_page_names on an existing spreadsheet: the titles of its pages.
PageNames(pages) == {"Test"} \cup DOMAIN pages

\* top_row = ["Student", "Time", <prompts>, "Result"]
TopRow(result_list) ==
    <<"Student", "Time">> \o [i \in 1..Len(result_list) |-> result_list[i].Vopros]
        \o <<"Result">>

\* f"{correct_answers}/{len(result_list)}"
ScoreText(result_list) ==
    ToString(CorrectAnswers(result_list)) \o "/" \o ToString(Len(result_list))

\* row = [user_data, str(datetime.now()), <"Right"|"Wrong" per answer>, score]
ResultRow(user_data, now, result_list) ==
    <<user_data, now>>
        \o [i \in 1..Len(result_list) |->
                IF result_list[i].is_correct THEN "Right" ELSE "Wrong"]
        \o <<ScoreText(result_list)>>

\* Mutant of PageMissing: the page is created on every call.
PageMissingAlways(title, names) == TRUE

\* if test_name + "_result" not in self._get_page_names(...): the page is created.
PageMissing(title, names) == title \notin names

\* _create_page then _add_row: the pages of a spreadsheet with `title` set to `rows`.
WithPage(pages, title, rows) ==
    [t \in (DOMAIN pages) \cup {title} |-> IF t = title THEN rows ELSE pages[t]]

TotalCalls ==
    LET RECURSIVE Sum(_)
        Sum(S) == IF S = {} THEN 0
                  ELSE LET x == CHOOSE y \in S : TRUE
                       IN  record_calls[x] + Sum(S \ {x})
    IN  Sum(DOMAIN record_calls)

\* The backend calls of add_result_to_worksheet, in the order it makes them.
Stages == <<"list", "create", "header", "row">>

StageOf(stage) == CHOOSE i \in 1..Len(Stages) : Stages[i] = stage

\* The backend answers the call `stage` with HttpError: under the fault
\* "list_once" the listing alone fails; under a fault naming a stage the
\* spreadsheet is gone from that call on.
CallFails(fault, stage) ==
    \/ fault = "list_once" /\ stage = "list"
    \/ /\ \E i \in 1..Len(Stages) : Stages[i] = fault
       /\ StageOf(fault) <= StageOf(stage)

\* Mutant of Propagates: the exception is swallowed.
PropagatesNothing(exc) == "none"

\* An exception of _create_page or _add_row leaves add_result_to_worksheet:
\* the method has no except clause.
Propagates(exc) == exc

\* add_result_to_worksheet(test_name, user_data, result_list); `now` is the
\* clock's reading and `fault` the backend's failure ("none": every call
\* succeeds unless the request itself is invalid).
add_result_to_worksheet(test_name, user_data, result_list, now, fault) ==
    LET title == test_name \o "_result"
        known == current_test_id \in SourceIds
        pages == books[current_test_id]
        names == IF known /\ ~CallFails(fault, "list") THEN PageNames(pages) ELSE {}
        row == ResultRow(user_data, now, result_list)
        Fail(after) == /\ record_error' = Propagates("HttpError")
                       /\ books' = after
        Done(after) == /\ record_error' = "none"
                       /\ books' = after
    IN  /\ TotalCalls < MaxRecords
        /\ record_calls' = IF known
                             THEN [record_calls EXCEPT ![<<current_test_id, test_name>>] = @ + 1]
                             ELSE record_calls
        /\ UNCHANGED <<current_test_id, surveys, surveys_dir, drawn, loaded>>
        /\ IF PageMissing(title, names)
             THEN IF ~known \/ title \in PageNames(pages) \/ CallFails(fault, "create")
                    THEN Fail(books)
                  ELSE IF CallFails(fault, "header")
                    THEN Fail([books EXCEPT ![current_test_id] = WithPage(pages, title, <<>>)])
                  ELSE IF CallFails(fault, "row")
                    THEN Fail([books EXCEPT ![current_test_id] =
                                  WithPage(pages, title, <<TopRow(result_list)>>)])
                  ELSE Done([books EXCEPT ![current_test_id] =
                                  WithPage(pages, title, <<TopRow(result_list), row>>)])
             ELSE IF CallFails(fault, "row")
                    THEN Fail(books)
                    ELSE Done([books EXCEPT ![current_test_id] =
                                  WithPage(pages, title, Append(pages[title], row))])

-----------------------------------------------------------------------------
(* The row-keyed sheet of SpreadsheetHandler: the page SheetTitle of the   *)
(* spreadsheet self._spreadsheet_id names.  The sheet is a grid of         *)
(* MaxRows rows and Width columns (the range A..D the code writes); ""     *)
(* is a blank cell.  Row 1 holds the header written at creation.           *)

Width == 4

\* self._sheet_attributes.get(spreadsheet_title) of the modelled sheet.
SheetAttributes == <<"id", "name">>

\* The spreadsheet_title the modelled calls pass.
SheetTitle == "S"

BlankRow == [c \in 1..Width |-> ""]

\* The current spreadsheet has no page SheetTitle: every request naming the
\* page is answered with HttpError.
NoSheet == <<>>

\* values[0:len] written to A{row_number}:D{row_number}; cells beyond the
\* values given keep their content.
UpdateRow(grid, row_number, values) ==
    [grid EXCEPT ![row_number] =
        [c \in 1..Width |-> IF c <= Len(values) THEN values[c] ELSE @[c]]]

\* A page after its creation and the write of `values` to A1:D1.
SheetWithHeader(values) ==
    [i \in 1..MaxRows |-> IF i = 1 THEN UpdateRow(<<BlankRow>>, 1, values)[1] ELSE BlankRow]

\* The sheet as create_spreadsheet leaves it: the header in row 1.
NewSheet == SheetWithHeader(SheetAttributes)

\* The backend omits "values" when the whole range A1:A1000 is blank.
HasValues(grid) == \E i \in 1..MaxRows : grid[i][1] # ""

\* results["valueRanges"][0]["values"] for A1:A1000: one entry per row up to
\* the last occupied one, [] for a row whose first cell is blank.
FirstColumnValues(grid) ==
    LET last == CHOOSE i \in 1..MaxRows :
                    /\ grid[i][1] # ""
                    /\ \A j \in (i + 1)..MaxRows : grid[j][1] = ""
    IN  [i \in 1..last |-> IF grid[i][1] = "" THEN <<>> ELSE <<grid[i][1]>>]

\* list.index(x) + 1
ListIndex(list, x) == CHOOSE i \in 1..Len(list) :
    /\ list[i] = x
    /\ \A j \in 1..(i - 1) : list[j] # x

\* list.count(x)
ListCount(list, x) == Cardinality({i \in 1..Len(list) : list[i] = x})

\* The rows at which add_row's loop breaks: a blank row or a row with the key.
StopsAt(sheet_values, first_row_element, i) ==
    \/ sheet_values[i] = <<>>
    \/ sheet_values[i][1] = first_row_element

\* Mutant of AddRowNumber: the row always goes after the last occupied row.
AddRowNumberAppends(sheet_values, first_row_element) == Len(sheet_values) + 1

\* row_number of add_row (lines 178-186).
AddRowNumber(sheet_values, first_row_element) ==
    IF \E i \in 1..Len(sheet_values) : StopsAt(sheet_values, first_row_element, i)
      THEN LET at == CHOOSE i \in 1..Len(sheet_values) :
                        /\ StopsAt(sheet_values, first_row_element, i)
                        /\ \A j \in 1..(i - 1) : ~StopsAt(sheet_values, first_row_element, j)
           IN  IF sheet_values[at] = <<>>
                 THEN ListIndex(sheet_values, <<>>)
                 ELSE ListIndex(sheet_values, <<first_row_element>>)
      ELSE Len(sheet_values) + 1

\* The grid after add_row(title, row) returns normally.
AddRowGrid(grid, row) ==
    UpdateRow(grid, AddRowNumber(FirstColumnValues(grid), row[1]), row)

\* The empty dict {}.
NoRow == [a \in {} |-> ""]

\* What a call left behind: its name, its return value or exception and, for
\* get_row_by_first_element, the dict it returned.
Outcome(call, result) == [call |-> call, result |-> result, row |-> NoRow]

\* add_row(spreadsheet_title, row)
add_row(row) ==
    IF Len(row) = 0
      THEN ret' = Outcome("add_row", "IndexError") /\ UNCHANGED sheet
    ELSE IF sheet = NoSheet
      THEN ret' = Outcome("add_row", "HttpError") /\ UNCHANGED sheet
    ELSE IF ~HasValues(sheet)
      THEN ret' = Outcome("add_row", "KeyError") /\ UNCHANGED sheet
    ELSE /\ AddRowNumber(FirstColumnValues(sheet), row[1]) <= MaxRows
         /\ sheet' = AddRowGrid(sheet, row)
         /\ ret' = Outcome("add_row", "None")

\* The callers of the accessor that may have an add_row call in progress at
\* the same time (threads or processes sharing the sheet).
Callers == {"c1", "c2"}

\* The spreadsheet self._spreadsheet_id names: the last one created.
CurrentSpreadsheet(reqs) == Cardinality({i \in 1..Len(reqs) : reqs[i].op = "create"})

\* A caller with no call made yet.
NoCall == [pc |-> "idle", row |-> <<>>, row_number |-> 0, spreadsheet |-> 0, result |-> ""]

\* A call of add_row that has ended with `result`.
EndedCall(row, result) ==
    [pc |-> "done", row |-> row, row_number |-> 0, spreadsheet |-> 0, result |-> result]

\* Mutant of WrittenGrid: the row number is computed anew from the sheet as it
\* is when the write is made.
WrittenGridRereads(grid, call) == AddRowGrid(grid, call.row)

\* The grid after the batchUpdate of an add_row call (line 188): the row goes
\* to the row_number the call computed from what it read.
WrittenGrid(grid, call) == UpdateRow(grid, call.row_number, call.row)

\* add_row up to its write (lines 175-186): the batchGet of the first column
\* and the row_number computed from it.  The call ends here when it raises.
add_row_read(caller, row) ==
    /\ pending[caller].pc # "read"
    /\ UNCHANGED <<sheet, ret>>
    /\ IF Len(row) = 0
         THEN pending' = [pending EXCEPT ![caller] = EndedCall(row, "IndexError")]
       ELSE IF sheet = NoSheet
         THEN pending' = [pending EXCEPT ![caller] = EndedCall(row, "HttpError")]
       ELSE IF ~HasValues(sheet)
         THEN pending' = [pending EXCEPT ![caller] = EndedCall(row, "KeyError")]
       ELSE /\ AddRowNumber(FirstColumnValues(sheet), row[1]) <= MaxRows
            /\ pending' = [pending EXCEPT ![caller] =
                  [pc |-> "read", row |-> row,
                   row_number |-> AddRowNumber(FirstColumnValues(sheet), row[1]),
                   spreadsheet |-> CurrentSpreadsheet(requests),
                   result |-> ""]]

\* The spreadsheets the batchUpdate of a call may name: the request takes
\* self._spreadsheet_id when it is built (line 150), which is the spreadsheet
\* the call read, or the one a create_spreadsheet of the same handler has
\* made current since (line 109).
WriteTargets(call, reqs) == {call.spreadsheet, CurrentSpreadsheet(reqs)}

\* The rest of add_row (line 188): the batchUpdate.  Written to the current
\* spreadsheet the row is in the handler's sheet (HttpError when it has no
\* such page); written to the former one it leaves the handler's sheet as it
\* is, and the call returns None.
add_row_write(caller) ==
    /\ pending[caller].pc = "read"
    /\ \E spreadsheet \in WriteTargets(pending[caller], requests) :
          IF spreadsheet # CurrentSpreadsheet(requests)
            THEN /\ UNCHANGED sheet
                 /\ pending' = [pending EXCEPT ![caller].pc = "done",
                                               ![caller].result = "None"]
          ELSE IF sheet = NoSheet
            THEN /\ UNCHANGED sheet
                 /\ pending' = [pending EXCEPT ![caller].pc = "done",
                                               ![caller].result = "HttpError"]
          ELSE /\ sheet' = WrittenGrid(sheet, pending[caller])
               /\ pending' = [pending EXCEPT ![caller].pc = "done",
                                             ![caller].result = "None"]
    /\ UNCHANGED ret

\* empty_string_list: one "" per attribute of the sheet.
EmptyStringList == [i \in 1..Len(SheetAttributes) |-> ""]

\* The row remove_row blanks.
RemoveRowNumber(sheet_values, first_row_element) ==
    ListIndex(sheet_values, <<first_row_element>>)

\* remove_row(spreadsheet_title, first_row_element)
remove_row(first_row_element) ==
    IF sheet = NoSheet
      THEN ret' = Outcome("remove_row", "HttpError") /\ UNCHANGED sheet
    ELSE IF ~HasValues(sheet)
      THEN ret' = Outcome("remove_row", "KeyError") /\ UNCHANGED sheet
    ELSE IF ListCount(FirstColumnValues(sheet), <<first_row_element>>) = 0
      THEN ret' = Outcome("remove_row", "False") /\ UNCHANGED sheet
    ELSE /\ sheet' = UpdateRow(sheet,
                        RemoveRowNumber(FirstColumnValues(sheet), first_row_element),
                        EmptyStringList)
         /\ ret' = Outcome("remove_row", "True")

\* right_corner: get_row_by_first_element reads columns A..chr(64 + len(attributes)).
RightCorner == Len(SheetAttributes)

\* A row of a value range: the cells up to the last non-blank one.
TrimmedRow(cells, width) ==
    LET filled == {c \in 1..width : cells[c] # ""}
        last == IF filled = {} THEN 0
                ELSE CHOOSE c \in filled : \A d \in filled : d <= c
    IN  [c \in 1..last |-> cells[c]]

\* The backend omits "values" when the whole range A2:{right_corner}1000 is blank.
RowRangeHasValues(grid) ==
    \E n \in 2..MaxRows : TrimmedRow(grid[n], RightCorner) # <<>>

\* results["valueRanges"][0]["values"] for A2:{right_corner}1000: one entry per
\* row from row 2 to the last occupied one.
RowRangeValues(grid) ==
    LET last == CHOOSE n \in 2..MaxRows :
                    /\ TrimmedRow(grid[n], RightCorner) # <<>>
                    /\ \A m \in (n + 1)..MaxRows : TrimmedRow(grid[m], RightCorner) = <<>>
    IN  [n \in 1..(last - 1) |-> TrimmedRow(grid[n + 1], RightCorner)]

\* The loop of get_row_by_first_element from entry n on: i is the running
\* cell index, which is not reset between rows; row is the dict built so far.
RECURSIVE GetRowLoop(_, _, _, _, _)
GetRowLoop(sheet_values, element, n, i, row) ==
    IF n > Len(sheet_values) THEN [error |-> "none", row |-> row]
    ELSE LET sheet_row == sheet_values[n]
         IN  IF sheet_row # <<>> /\ sheet_row[1] = element
               THEN IF i + Len(SheetAttributes) > Len(sheet_row)
                      THEN [error |-> "IndexError", row |-> row]
                      ELSE GetRowLoop(sheet_values, element, n + 1,
                               i + Len(SheetAttributes),
                               [a \in {SheetAttributes[k] : k \in 1..Len(SheetAttributes)} |->
                                   sheet_row[i + ListIndex(SheetAttributes, a)]])
               ELSE GetRowLoop(sheet_values, element, n + 1, i, row)

\* get_row_by_first_element(spreadsheet_title, element)
get_row_by_first_element(element) ==
    /\ UNCHANGED sheet
    /\ IF \A k \in 1..Len(sheet_attributes) : sheet_attributes[k].title # SheetTitle
         THEN ret' = Outcome("get_row_by_first_element", "TypeError")
       ELSE IF sheet = NoSheet
         THEN ret' = Outcome("get_row_by_first_element", "HttpError")
       ELSE IF ~RowRangeHasValues(sheet)
         THEN ret' = [call |-> "get_row_by_first_element", result |-> "dict", row |-> NoRow]
         ELSE LET got == GetRowLoop(RowRangeValues(sheet), element, 1, 0, NoRow)
              IN  ret' = [call |-> "get_row_by_first_element",
                          result |-> IF got.error = "none" THEN "dict" ELSE got.error,
                          row |-> IF got.error = "none" THEN got.row ELSE NoRow]

-----------------------------------------------------------------------------
(* Provisioning: create_spreadsheet.  The schema is the ordered dict        *)
(* _sheet_attributes, a sequence of [title, attributes] in declaration      *)
(* order.  A request is [op, spreadsheet, sheet, values]: spreadsheet is    *)
(* the number of the spreadsheet it addresses (0: the one the handler was   *)
(* constructed with), values the header cells of a header write.           *)

\* Mutant of PopIndex: the titles are taken in declaration order.
PopIndexForward(attrs, created) == Len(created)

\* len(keys) - len(self._created_sheets) - 1
PopIndex(attrs, created) == Len(attrs) - Len(created) - 1

Request(op, spreadsheet, sheet_title, values) ==
    [op |-> op, spreadsheet |-> spreadsheet, sheet |-> sheet_title, values |-> values]

\* _create_sheet's two requests: addSheet, then the header row A1:D1.
CreateSheetRequests(spreadsheet, popped) ==
    << Request("addSheet", spreadsheet, popped.title, <<>>),
       Request("header", spreadsheet, popped.title, popped.attributes) >>

\* while len(self._created_sheets) != len(self._sheet_attributes.keys()):
\*     self._create_sheet(row_count, column_count)
RECURSIVE CreateSheetsLoop(_, _, _)
CreateSheetsLoop(attrs, created, reqs) ==
    IF Len(created) = Len(attrs)
      THEN [error |-> "none", created |-> created, requests |-> reqs]
    ELSE IF ~PyIndexOK(attrs, PopIndex(attrs, created))
      THEN [error |-> "IndexError", created |-> created, requests |-> reqs]
    ELSE LET popped == PyIndex(attrs, PopIndex(attrs, created))
         IN  CreateSheetsLoop(attrs, Append(created, popped.title),
                 reqs \o CreateSheetRequests(CurrentSpreadsheet(reqs), popped))

\* The page SheetTitle of spreadsheet `id` after the requests `reqs`: absent
\* unless a request created it, and holding the header a request wrote.
PageOf(reqs, id) ==
    LET made == {i \in 1..Len(reqs) :
                    /\ reqs[i].spreadsheet = id
                    /\ reqs[i].op \in {"create", "addSheet"}
                    /\ reqs[i].sheet = SheetTitle}
        headers == {i \in 1..Len(reqs) :
                    /\ reqs[i].spreadsheet = id
                    /\ reqs[i].op = "header"
                    /\ reqs[i].sheet = SheetTitle}
    IN  IF made = {} THEN NoSheet
        ELSE IF headers = {} THEN SheetWithHeader(<<>>)
        ELSE SheetWithHeader(reqs[CHOOSE i \in headers : \A j \in headers : j <= i].values)

\* create_spreadsheet(spreadsheet_title, row_count, column_count).  From line
\* 109 on self._spreadsheet_id names the new spreadsheet, so the handler's
\* sheet is the page of that title in the new spreadsheet.
create_spreadsheet(spreadsheet_title, row_count, column_count) ==
    /\ UNCHANGED sheet_attributes
    /\ IF ~PyIndexOK(sheet_attributes, PopIndex(sheet_attributes, created_sheets))
         THEN /\ ret' = Outcome("create_spreadsheet", "IndexError")
              /\ UNCHANGED <<created_sheets, requests>>
         ELSE LET popped == PyIndex(sheet_attributes,
                                    PopIndex(sheet_attributes, created_sheets))
                  new_id == CurrentSpreadsheet(requests) + 1
                  first == requests \o
                      << [Request("create", new_id, popped.title, <<>>)
                             EXCEPT !.values = <<spreadsheet_title, ToString(row_count),
                                                 ToString(column_count)>>],
                         Request("header", new_id, popped.title, popped.attributes) >>
                  done == CreateSheetsLoop(sheet_attributes,
                                           Append(created_sheets, popped.title), first)
              IN  /\ created_sheets' = done.created
                  /\ IF done.error = "none"
                       THEN /\ requests' = Append(done.requests,
                                    Request("permissions", new_id, "", <<>>))
                            /\ ret' = Outcome("create_spreadsheet", "None")
                       ELSE /\ requests' = done.requests
                            /\ ret' = Outcome("create_spreadsheet", done.error)
    /\ sheet' = IF ~PyIndexOK(sheet_attributes, PopIndex(sheet_attributes, created_sheets))
                  THEN sheet
                  ELSE PageOf(requests', CurrentSpreadsheet(requests'))

-----------------------------------------------------------------------------
(* Inputs the environment delivers. *)

Choices == {"a", "b"}

IndexFields == {"0", "1", "2"}

SurveyNames == {"T1", "T2"}

\* callback_query.data.split(";") of the callbacks the survey state receives:
\* start and answer callbacks of the saved tests, and malformed ones (a test
\* without a file, a non-numeric number, missing fields).
Payloads ==
    {<<"start", n, i>> : n \in SurveyNames, i \in IndexFields}
        \cup {<<"question", n, i, c>> : n \in SurveyNames, i \in IndexFields, c \in Choices}
        \cup {<<"start", "TX", "0">>, <<"start", "T1", "x">>, <<"ready">>,
              <<"start", "T1">>, <<"question", "T1", "1">>}

\* The callbacks of the buttons on the user's screen: the teacher's start
\* message while the user waits, the answers keyboard under a question (its
\* buttons carry the number of the question after the one answered).
Buttons(shown) ==
    IF shown.kind = "wait"
      THEN {<<"start", n, "0">> : n \in DOMAIN surveys}
    ELSE IF shown.kind = "question"
      THEN {<<"question", shown.survey, IntTokens[shown.number + 2], c>> : c \in Choices}
    ELSE {}

\* The header row of a drawn test grid: the prompt, the correct answer and
\* two answer options.
HeaderRow == GridRow(<<Filled("Vopros"), Filled("pravilny"), Filled("v1"), Filled("v2")>>)

\* The prompt typed in data row r.
Prompt(r) == "Q" \o ToString(r)

\* The data rows the backend may return at position r: every column filled,
\* prompt and answer only, formatted cells without values, an empty rowData
\* entry, and a row one cell wider than the header.
DataRows(r) ==
    { GridRow(<<Filled(Prompt(r)), Filled("a"), Filled("a"), Filled("b")>>),
      GridRow(<<Filled(Prompt(r)), Filled("a")>>),
      GridRow(<<Unfilled, Unfilled>>),
      EmptyGridRow,
      GridRow(<<Filled(Prompt(r)), Filled("a"), Filled("a"), Filled("b"), Filled("c")>>) }

\* The header rows a drawn grid may have: every cell typed, or one cell
\* formatted and left without a value.
HeaderRows ==
    {HeaderRow, GridRow(<<Filled("Vopros"), Filled("pravilny"), Unfilled, Filled("v2")>>)}

\* sheet["data"][0]["rowData"] of a drawn spreadsheet: no rows at all, or a
\* header and up to MaxGridRows data rows.
Grids ==
    {<<>>} \cup
    UNION { { <<header>> \o rows :
                header \in HeaderRows,
                rows \in { f \in [1..n -> UNION {DataRows(r) : r \in 1..n}] :
                              \A r \in 1..n : f[r] \in DataRows(r) } } :
            n \in 0..MaxGridRows }

\* spreadsheets["properties"]["title"] of a drawn spreadsheet.
Titles == {"", "T3"}

\* Names and question lists handed to _save_test.
StoreNames == {"", "T1", "T2", "T3"}

StoreTests ==
    { <<>>,
      << [Vopros |-> "P1", pravilny |-> "a"] >>,
      << [Vopros |-> "P1", pravilny |-> "b"], [Vopros |-> "P2", pravilny |-> "a"] >>,
      << NoRow, [Vopros |-> "P2"] >> }

\* The sheet titles a schema may declare, and the attributes of each.
SheetTitles == {"s" \o ToString(i) : i \in 1..MaxSheets}

AttributesOf(title) == <<"id", title>>

\* sheet_attributes: one to MaxSheets distinct titles in any declaration order.
Schemas ==
    UNION { { [i \in 1..n |-> [title |-> f[i], attributes |-> AttributesOf(f[i])]] :
                f \in { g \in [1..n -> SheetTitles] :
                          \A i, j \in 1..n : i # j => g[i] # g[j] } } :
            n \in 1..MaxSheets }

SpreadsheetTitles == {"Bot", "Bot2"}

RowCounts == {100, 1000}

ColumnCount == 26

Keys == {"", "id", "k1", "k2"}

RowInputs == {<<>>} \cup {<<k>> : k \in Keys} \cup {<<k, "x">> : k \in Keys}

\* The rows of the concurrent add_row calls.
RaceRows == {<<>>, <<"k1", "x">>, <<"k2", "y">>, <<"k2">>}

\* The faults under which the spreadsheet is gone from some call on.
GoneFaults == {"list", "create", "header", "row"}

Faults == {"none", "list_once"} \cup GoneFaults

-----------------------------------------------------------------------------
(* Initial states and specifications. *)

EmptyDir == [n \in {} |-> <<>>]

\* The files of surveys/ after load_test_by_link of spreadsheets A and B in a
\* working directory that has surveys/.
LoadedSurveys ==
    LET a == GetTest("present", BookTitle("A"), BookRowData("A"))
        b == GetTest("present", BookTitle("B"), BookRowData("B"))
        first == SaveTest("present", EmptyDir, a.test_name, a.survey)
    IN  SaveTest(first.dir, first.files, b.test_name, b.survey).files

\* Spreadsheet "G" when it is not the subject: a one-question test "T3".
DefaultDrawn ==
    [title |-> "T3",
     rowData |-> << GridRow(<<Filled("Vopros"), Filled("pravilny")>>),
                    GridRow(<<Filled("Q1"), Filled("a")>>) >>]

InitQuizVars ==
    /\ fsm_state = NoState
    /\ data_type \in Roles \cup {"missing"}
    /\ tests = NoTests
    /\ message = NoMessage
    /\ error = "none"
    /\ tasks = [slot \in SlotSet |-> NoTask]

InitRecordVars ==
    /\ current_test_id = ""
    /\ books = [b \in SourceIds |-> EmptyDir]
    /\ record_error = "none"
    /\ record_calls = [p \in SourceIds \X TestNames |-> 0]
    /\ drawn = DefaultDrawn
    /\ loaded = NoLoad
    /\ surveys_dir \in SurveysDirs

InitTableVars ==
    /\ sheet = NewSheet
    /\ ret = Outcome("", "")
    /\ pending = [caller \in Callers |-> NoCall]
    /\ sheet_attributes = <<[title |-> SheetTitle, attributes |-> SheetAttributes]>>
    /\ created_sheets = <<>>
    /\ requests = <<>>

\* The bot after construction, nothing loaded.
Init ==
    /\ InitQuizVars
    /\ InitRecordVars
    /\ InitTableVars
    /\ surveys = EmptyDir

\* A user's session once the tests of spreadsheets A and B have been loaded.
InitQuiz ==
    /\ InitQuizVars
    /\ current_test_id = "B"
    /\ books = [b \in SourceIds |-> EmptyDir]
    /\ record_error = "none"
    /\ record_calls = [p \in SourceIds \X TestNames |-> 0]
    /\ drawn = DefaultDrawn
    /\ loaded = NoLoad
    /\ surveys_dir = "present"
    /\ InitTableVars
    /\ surveys = LoadedSurveys

\* The other components are left alone by the quiz handlers.
QuizOnly == UNCHANGED <<surveys, recordVars, tableVars>>

\* Every update the registrations of lines 35, 43 and 51 take, delivered at
\* any time: a handler is called while earlier calls of the user are
\* suspended at their awaits.
NextQuiz ==
    \/ ready_check_survey_handler /\ QuizOnly
    \/ ready_to_pass_survey_handler /\ QuizOnly
    \/ \E separated_data \in Payloads : passing_test_handler(separated_data) /\ QuizOnly
    \/ \E slot \in SlotSet : ready_check_survey_handler_resume(slot) /\ QuizOnly
    \/ \E slot \in SlotSet : ready_to_pass_survey_handler_resume(slot) /\ QuizOnly
    \/ \E slot \in SlotSet : passing_test_handler_resume(slot) /\ QuizOnly

\* No update of the user is in handling.
Quiet == InHandling = {}

\* Each update arrives after the handler of the one before has ended.
NextQuizInTurn ==
    \/ Quiet /\ ready_check_survey_handler /\ QuizOnly
    \/ Quiet /\ ready_to_pass_survey_handler /\ QuizOnly
    \/ \E separated_data \in Payloads :
          Quiet /\ passing_test_handler(separated_data) /\ QuizOnly
    \/ \E slot \in SlotSet : ready_check_survey_handler_resume(slot) /\ QuizOnly
    \/ \E slot \in SlotSet : ready_to_pass_survey_handler_resume(slot) /\ QuizOnly
    \/ \E slot \in SlotSet : passing_test_handler_resume(slot) /\ QuizOnly

\* The callback of the button "ready".  The button stays on the screen of a
\* user in the survey state (pressed twice, or under a second keyboard
\* message); there the registration of line 51 takes its callback.
ReadyButton == {<<"ready">>}

\* Every callback in handling has made its edit: its call is at the
\* callback_query.answer() of line 84 or 106, its message is on the screen.
EarlierAnswersShown ==
    \A slot \in SlotSet :
        tasks[slot].handler = "passing_test_handler"
            => tasks[slot].pc \in {"answer_84", "answer_106"}

\* The user presses only the buttons on the screen and each answer button
\* once: it is pressed once the handler of the one before has shown it.  The
\* command and the callback of the "ready" button come at any time, in the
\* default state and in the survey state.
NextQuizOnce ==
    \/ ready_check_survey_handler /\ QuizOnly
    \/ ready_to_pass_survey_handler /\ QuizOnly
    \/ \E separated_data \in ReadyButton : passing_test_handler(separated_data) /\ QuizOnly
    \/ \E separated_data \in Buttons(message) :
          EarlierAnswersShown /\ passing_test_handler(separated_data) /\ QuizOnly
    \/ \E slot \in SlotSet : ready_check_survey_handler_resume(slot) /\ QuizOnly
    \/ \E slot \in SlotSet : ready_to_pass_survey_handler_resume(slot) /\ QuizOnly
    \/ \E slot \in SlotSet : passing_test_handler_resume(slot) /\ QuizOnly

\* The user presses only the buttons on the screen (those of the last
\* message, or a "ready" button), each update after the handler of the one
\* before has ended.
NextQuizUI ==
    \/ Quiet /\ ready_check_survey_handler /\ QuizOnly
    \/ Quiet /\ ready_to_pass_survey_handler /\ QuizOnly
    \/ \E separated_data \in Buttons(message) \cup ReadyButton :
          Quiet /\ passing_test_handler(separated_data) /\ QuizOnly
    \/ \E slot \in SlotSet : ready_check_survey_handler_resume(slot) /\ QuizOnly
    \/ \E slot \in SlotSet : ready_to_pass_survey_handler_resume(slot) /\ QuizOnly
    \/ \E slot \in SlotSet : passing_test_handler_resume(slot) /\ QuizOnly

NextRecord ==
    \/ \E url \in Urls :
          load_test_by_link(url, FALSE) /\ UNCHANGED <<quizVars, tableVars>>
    \/ \E t \in TestNames, u \in Users, r \in ResultLists, now \in Times :
          add_result_to_worksheet(t, u, r, now, "none") /\ UNCHANGED <<quizVars, tableVars>>

\* The transcript of a one-question test answered rightly.
OneAnswer == << [Vopros |-> "P1", is_correct |-> TRUE] >>

\* Recording against a backend that may fail.
NextRecordFaults ==
    \/ \E url \in {UrlOf("A"), UrlOf("B")} :
          load_test_by_link(url, FALSE) /\ UNCHANGED <<quizVars, tableVars>>
    \/ \E t \in TestNames, now \in Times, fault \in Faults :
          add_result_to_worksheet(t, "u1", OneAnswer, now, fault)
              /\ UNCHANGED <<quizVars, tableVars>>

NextTable ==
    \/ \E row \in RowInputs :
          add_row(row) /\ UNCHANGED <<quizVars, surveys, recordVars, pending, provisionVars>>
    \/ \E key \in Keys :
          remove_row(key) /\ UNCHANGED <<quizVars, surveys, recordVars, pending, provisionVars>>
    \/ \E key \in Keys :
          get_row_by_first_element(key)
              /\ UNCHANGED <<quizVars, surveys, recordVars, pending, provisionVars>>

\* One add_row call of each of two callers, interleaved at their backend
\* requests.
NextRace ==
    \/ \E caller \in Callers, row \in RaceRows :
          pending[caller].pc = "idle" /\ add_row_read(caller, row)
              /\ UNCHANGED <<quizVars, surveys, recordVars, provisionVars>>
    \/ \E caller \in Callers :
          add_row_write(caller)
              /\ UNCHANGED <<quizVars, surveys, recordVars, provisionVars>>

\* Provisioning a spreadsheet from the handler's schema.
NextProvision ==
    \E spreadsheet_title \in SpreadsheetTitles, row_count \in RowCounts :
        create_spreadsheet(spreadsheet_title, row_count, ColumnCount)
            /\ UNCHANGED <<quizVars, surveys, recordVars, pending>>

\* A handler constructed with any of the schemas; none of them declares the
\* page SheetTitle, so the spreadsheet has no such page.
InitProvision ==
    /\ InitQuizVars
    /\ data_type = "student"
    /\ InitRecordVars
    /\ surveys_dir = "present"
    /\ surveys = EmptyDir
    /\ sheet = NoSheet
    /\ ret = Outcome("", "")
    /\ pending = [caller \in Callers |-> NoCall]
    /\ sheet_attributes \in Schemas
    /\ created_sheets = <<>>
    /\ requests = <<>>

SpecProvision == InitProvision /\ [][NextProvision]_vars

\* A student, sent any of the callbacks, one update at a time.
InitStudent == InitQuiz /\ data_type = "student"

SpecQuiz == InitStudent /\ [][NextQuizInTurn]_vars

\* A student who presses each button on the screen once.
SpecQuizOnce == InitStudent /\ [][NextQuizOnce]_vars

\* A student who presses only the buttons on the screen.
SpecQuizUI == InitStudent /\ [][NextQuizUI]_vars

\* A user of any role who presses only the buttons on the screen.
SpecQuizRoles == InitQuiz /\ [][NextQuizUI]_vars

\* The storage components do not read the user's role; the working directory
\* has surveys/.
InitStorage == Init /\ data_type = "student" /\ surveys_dir = "present"

\* The storage in any working directory.
InitStore == Init /\ data_type = "student"

SpecRecord == InitStorage /\ [][NextRecord]_vars

\* The storage against a backend that may fail.
SpecRecordFaults == InitStorage /\ [][NextRecordFaults]_vars

SpecTable == InitStorage /\ [][NextTable]_vars

\* The sheets the two callers may find: as created, or with the row of an
\* earlier add_row call.
RaceSheets == {NewSheet} \cup {AddRowGrid(NewSheet, row) : row \in RaceRows \ {<<>>}}

InitRace ==
    /\ InitQuizVars
    /\ data_type = "student"
    /\ InitRecordVars
    /\ surveys_dir = "present"
    /\ surveys = EmptyDir
    /\ sheet \in RaceSheets
    /\ ret = Outcome("", "")
    /\ pending = [caller \in Callers |-> NoCall]
    /\ sheet_attributes = <<[title |-> SheetTitle, attributes |-> SheetAttributes]>>
    /\ created_sheets = <<>>
    /\ requests = <<>>

\* The sheet under add_row calls of two callers at once.
SpecRace == InitRace /\ [][NextRace]_vars

\* Loading the drawn spreadsheet; the read succeeds or fails.
NextNormalize ==
    \E get_fails \in BOOLEAN :
        load_test_by_link(UrlOf("G"), get_fails) /\ UNCHANGED <<quizVars, tableVars>>

\* The bot after construction, spreadsheet "G" holding any of the grids.
InitNormalize ==
    /\ InitQuizVars
    /\ data_type = "student"
    /\ current_test_id = ""
    /\ books = [b \in SourceIds |-> EmptyDir]
    /\ record_error = "none"
    /\ record_calls = [p \in SourceIds \X TestNames |-> 0]
    /\ drawn \in [title : Titles, rowData : Grids]
    /\ loaded = NoLoad
    /\ surveys_dir \in SurveysDirs
    /\ InitTableVars
    /\ surveys = EmptyDir

SpecNormalize == InitNormalize /\ [][NextNormalize]_vars

\* Saving tests and reading them back.
NextStore ==
    \/ \E n \in StoreNames, t \in StoreTests :
          save_test(n, t) /\ UNCHANGED <<quizVars, tableVars>>
    \/ \E n \in StoreNames :
          open_survey(n) /\ UNCHANGED <<quizVars, tableVars>>

SpecStore == InitStore /\ [][NextStore]_vars

Next == NextQuiz \/ NextRecord \/ NextRecordFaults \/ NextTable \/ NextRace \/ NextNormalize
           \/ NextStore \/ NextProvision

Spec == Init /\ [][Next]_vars

-----------------------------------------------------------------------------
(* Claims about the quiz session. *)

\* A step of passing_test_handler that finishes the session.
Finishes == fsm_state = ReadyState /\ fsm_state' = NoState

\* The test a callback names, as the files of surveys/ hold it.
Questions(separated_data) == ReadSurvey(surveys, separated_data[2])

\* The record passing_test_handler is to append for questions[i-1].
RecordOf(survey, i, chosen) ==
    [Vopros |-> survey[i].Vopros, is_correct |-> (survey[i].pravilny = chosen)]

\* The number of correct records of a transcript.
CorrectCount(answers) == Cardinality({i \in 1..Len(answers) : answers[i].is_correct})

\* C1: whenever an answer submission the handler accepts finishes a session
\* over a test with N questions, the transcript holds exactly N answer records
\* and the denominator of the score summary is N.
C1_TranscriptHoldsN ==
    [][\A slot \in SlotSet :
          (/\ passing_test_handler_resume(slot)
           /\ tasks[slot].pc = "edit_text_105"
           /\ tasks[slot].separated_data[1] = "question")
          => /\ Len(tests'.answers) = Len(Questions(tasks[slot].separated_data))
             /\ message'.total = Len(Questions(tasks[slot].separated_data))]_vars

\* C2: a "ready" interaction starts a fresh session: the transcript is empty
\* once ready_to_pass_survey_handler has moved the user to the survey state.
C2_ReadyStartsFresh ==
    [][(fsm_state = NoState /\ fsm_state' = ReadyState) => tests'.answers = <<>>]_vars

\* C3: whenever passing_test_handler finishes a session, the transcript is
\* handed to add_result_to_worksheet, which appends a result row.
C3_FinishRecordsResult ==
    [][Finishes => (record_calls' # record_calls /\ books' # books)]_vars

\* C5: a user whose stored role is not "student" is never moved to the
\* survey state, by the command or by the button callback.
C5_OnlyStudentsStart == data_type # "student" => fsm_state = NoState

\* C6: every "question" callback with questionIndex i (1 <= i <= N) in a
\* started session, the updates handled in their order of arrival, appends
\* exactly one record to the stored transcript: the
\* prompt of questions[i-1], correct exactly when the chosen answer is that
\* question's correct answer; the final summary counts the stored transcript's
\* correct records over its length.
C6_AnswerScored ==
    [][\A slot \in SlotSet :
          (/\ passing_test_handler_resume(slot)
           /\ Len(tasks[slot].separated_data) = 4
           /\ tasks[slot].separated_data[1] = "question"
           /\ IsInt(tasks[slot].separated_data[3])
           /\ QuestionNumber(tasks[slot]) \in 1..Len(Questions(tasks[slot].separated_data)))
          => /\ (tasks[slot].pc = "get_data_55" /\ tests.present)
                   => tasks'[slot].pc = "update_data_77"
             /\ tasks[slot].pc = "update_data_77"
                   => tests'.answers =
                         Append(tests.answers,
                                RecordOf(Questions(tasks[slot].separated_data),
                                         QuestionNumber(tasks[slot]),
                                         tasks[slot].separated_data[4]))
             /\ tasks[slot].pc = "edit_text_105"
                   => /\ message'.kind = "summary"
                      /\ message'.total = Len(tests'.answers)
                      /\ message'.correct = CorrectCount(tests'.answers)]_vars

\* C6 witness: the two-question test answered wrongly, then rightly: the
\* stored transcript is [false, true], the summary 1/2 has been sent and the
\* call has ended.
C6_Witness ==
    /\ tests.answers = << [Vopros |-> "P2", is_correct |-> FALSE],
                          [Vopros |-> "P3", is_correct |-> TRUE] >>
    /\ tests.is_finished
    /\ message.kind = "summary"
    /\ message.correct = 1
    /\ message.total = 2
    /\ fsm_state = NoState
    /\ Quiet

\* C19: for a user who presses each button on the screen once, the bootstrap
\* callback (index 0) presents questions[0] and scores nothing; the callback
\* that answers the question on the screen (questions[i-1], so it carries
\* index i) scores questions[i-1] and then, for i < N, presents questions[i]
\* and stays in the survey state; for i = N it finishes with the summary and
\* presents no further question.  No such callback raises.
C19_InOrderThenFinish ==
    [][\A slot \in SlotSet :
          passing_test_handler_resume(slot)
          => LET task == tasks[slot]
                 sd == task.separated_data
                 survey == Questions(sd)
                 N == Len(survey)
                 i == QuestionNumber(task)
                 scored == sd[1] = "question" /\ task.pc = "update_data_77"
                 presents == task.pc = "edit_text_83"
             IN  /\ tasks'[slot].handler = "none" => error' = "none"
                 /\ scored <=> tests'.answers # tests.answers
                 /\ scored => /\ tests'.answers = Append(tests.answers, RecordOf(survey, i, sd[4]))
                              /\ tasks'[slot].pc
                                    = IF i < N THEN "edit_text_83" ELSE "update_data_102"
                 /\ presents <=> (message' # message /\ message'.kind = "question")
                 /\ presents => /\ i < N
                                /\ message' = QuestionMessage(survey[i + 1], i, sd[2])
                                /\ fsm_state' = ReadyState
                                /\ sd[1] = "start" => i = 0
                 /\ (sd[1] = "question" /\ presents) => tests.answers # <<>>
                 /\ task.pc = "update_data_102" => (i = N /\ tests'.is_finished)
                 /\ task.pc = "set_state_104" => fsm_state' = NoState
                 /\ task.pc = "edit_text_105" => message'.kind = "summary"]_vars

\* C19 witness: in the two-question test the first question was answered and
\* the second is on the screen.
C19_Witness ==
    /\ fsm_state = ReadyState
    /\ message = QuestionMessage([Vopros |-> "P3", pravilny |-> "b"], 1, "T2")
    /\ tests.answers = << [Vopros |-> "P2", is_correct |-> TRUE] >>

\* C20: a well-formed first submission of a session, made while the storage
\* holds no tests entry, is not scored and the handler completes normally:
\* once it has stored the empty transcript it goes on without an exception.
C20_FirstSubmissionUnscored ==
    [][\A slot \in SlotSet :
          (/\ passing_test_handler_resume(slot)
           /\ tasks[slot].pc = "update_data_61"
           /\ Len(tasks[slot].separated_data) >= 3
           /\ IsInt(tasks[slot].separated_data[3])
           /\ \/ tasks[slot].separated_data = <<"start", tasks[slot].separated_data[2], "0">>
              \/ /\ tasks[slot].separated_data[1] = "question"
                 /\ Len(tasks[slot].separated_data) = 4
                 /\ QuestionNumber(tasks[slot])
                       \in 1..Len(Questions(tasks[slot].separated_data)))
          => /\ tests'.present
             /\ tests'.answers = <<>>
             /\ tasks'[slot].handler = "passing_test_handler"
             /\ error' = error]_vars

-----------------------------------------------------------------------------
(* Claims about result recording (specification SpecRecord). *)

IsTopRow(row) == Len(row) >= 3 /\ row[1] = "Student" /\ row[2] = "Time"

\* C4: after k >= 1 calls of add_result_to_worksheet for a test on a
\* spreadsheet that had no results page for it, the page exists, created once:
\* its first row is the header, no other row is a header, and it holds exactly
\* k data rows; before the first call there is no such page.
C4_OneHeaderKRows ==
    \A b \in SourceIds, t \in TestNames :
        LET title == t \o "_result"
            k == record_calls[<<b, t>>]
        IN  IF k = 0
              THEN title \notin DOMAIN books[b]
              ELSE /\ title \in DOMAIN books[b]
                   /\ Len(books[b][title]) = k + 1
                   /\ IsTopRow(books[b][title][1])
                   /\ \A i \in 2..(k + 1) :
                         /\ ~IsTopRow(books[b][title][i])
                         /\ books[b][title][i][1] \in Users

\* C4 witness: two calls for test T1 on spreadsheet A: header and two data rows.
C4_Witness ==
    /\ record_calls[<<"A", "T1">>] = 2
    /\ "T1_result" \in DOMAIN books["A"]
    /\ Len(books["A"]["T1_result"]) = 3

-----------------------------------------------------------------------------
(* Claims about loading a test (specification SpecNormalize). *)

\* The data rows of the drawn grid, in grid order.
DrawnDataRows == SubSeq(drawn.rowData, 2, Len(drawn.rowData))

\* The cells of a row that hold a value.
PopulatedCells(row) == {i \in 1..Len(row.values) : row.values[i].len > 3}

\* The header keys zipped with the populated cells of a row.
ZippedFields(row) ==
    [k \in {HeaderRow.values[i].formattedValue : i \in PopulatedCells(row)} |->
        row.values[CHOOSE i \in PopulatedCells(row) :
                       HeaderRow.values[i].formattedValue = k].formattedValue]

\* A step in which load_test_by_link read the drawn spreadsheet and returned.
Normalizes ==
    /\ load_test_by_link(UrlOf("G"), FALSE)
    /\ record_error' = "none"

\* C12 (as stated): for a titled spreadsheet whose grid has a header row and at least one data row of
\* more than 3 populated cells, the questions returned are, in grid order, the
\* data rows with more than 3 populated cells.
C12_CountsRowsOverThree ==
    [][(/\ Normalizes
        /\ drawn.title # ""
        /\ \E r \in 1..Len(DrawnDataRows) :
               Cardinality(PopulatedCells(DrawnDataRows[r])) > 3)
       => LET kept == SelectSeq(DrawnDataRows,
                          LAMBDA row : Cardinality(PopulatedCells(row)) > 3)
          IN  loaded'.survey = [i \in 1..Len(kept) |-> ZippedFields(kept[i])]]_vars

\* C12 (amended): for every grid the normalizer returns from, the non-empty
\* questions returned are, in grid order, one per data row with at least one
\* populated cell: the header keys zipped with that row's populated cells.
C12_OnePerPopulatedRow ==
    [][Normalizes
       => LET kept == SelectSeq(DrawnDataRows, LAMBDA row : PopulatedCells(row) # {})
          IN  SelectSeq(loaded'.survey, LAMBDA q : DOMAIN q # {})
                  = [i \in 1..Len(kept) |-> ZippedFields(kept[i])]]_vars

\* C12 witness: a grid of a two-cell row, a valueless row and a four-cell row
\* was normalized to two questions and saved.
C12_Witness ==
    /\ current_test_id = "G"
    /\ Len(DrawnDataRows) = 3
    /\ Cardinality(PopulatedCells(DrawnDataRows[1])) = 2
    /\ DrawnDataRows[2] = GridRow(<<Unfilled, Unfilled>>)
    /\ Cardinality(PopulatedCells(DrawnDataRows[3])) = 4
    /\ "T3" \in DOMAIN surveys
    /\ loaded = Returned("T3", ReadSurvey(surveys, "T3"))
    /\ Len(loaded.survey) = 2

\* C13: the question list returned for a titled spreadsheet never contains a question with an empty
\* field mapping; the questions are the surviving rows in grid order.
C13_NoEmptyQuestion ==
    [][(Normalizes /\ drawn.title # "")
       => /\ \A i \in 1..Len(loaded'.survey) : DOMAIN loaded'.survey[i] # {}
          /\ LET kept == SelectSeq(DrawnDataRows, LAMBDA row : PopulatedCells(row) # {})
             IN  loaded'.survey = [i \in 1..Len(kept) |-> ZippedFields(kept[i])]]_vars

\* C14: when the read fails or the title is empty, load_test_by_link returns
\* ("", []) and writes no file.  (Stated for the calls that return.)
C14_EmptyOnFailure ==
    [][\A get_fails \in BOOLEAN :
          (/\ load_test_by_link(UrlOf("G"), get_fails)
           /\ record_error' = "none"
           /\ (get_fails \/ drawn.title = ""))
          => /\ loaded' = Returned("", <<>>)
             /\ surveys' = surveys]_vars

-----------------------------------------------------------------------------
(* Claims about where and whether a result is recorded (specifications     *)
(* SpecRecord and SpecRecordFaults).                                       *)

\* C17: a result recorded for a loaded test T by a call that returns is
\* appended to the page of the spreadsheet T was loaded from (the one whose
\* title is T), and no other spreadsheet changes, whatever other tests were
\* loaded in between.
C17_ResultGoesToSource ==
    [][\A t \in TestNames, u \in Users, r \in ResultLists, now \in Times :
          (/\ add_result_to_worksheet(t, u, r, now, "none")
           /\ t \in DOMAIN surveys
           /\ record_error' = "none")
          => \A b \in SourceIds :
                IF BookTitle(b) = t
                  THEN /\ (t \o "_result") \in DOMAIN books'[b]
                       /\ books'[b][t \o "_result"][Len(books'[b][t \o "_result"])]
                             = ResultRow(u, now, r)
                  ELSE books'[b] = books[b]]_vars

\* The number of result rows on the pages of all spreadsheets.
StoredRows(bks) ==
    LET RECURSIVE Sum(_)
        Sum(P) == IF P = {} THEN 0
                  ELSE LET x == CHOOSE y \in P : TRUE
                       IN  Len(bks[x[1]][x[2]]) + Sum(P \ {x})
    IN  Sum({<<b, t>> \in SourceIds \X {n \o "_result" : n \in TestNames} :
                t \in DOMAIN bks[b]})

\* C18 (specification SpecRecordFaults): when the spreadsheet is gone at one
\* of the backend calls of add_result_to_worksheet (or was never there), the
\* call ends in HttpError; and whatever the backend does, a call that returns
\* normally has appended the result row as the last row of the test's page.
C18_GoneSurfaces ==
    [][\A t \in TestNames, now \in Times, fault \in Faults :
          add_result_to_worksheet(t, "u1", OneAnswer, now, fault)
          => /\ (fault \in GoneFaults \/ current_test_id \notin SourceIds)
                   => record_error' = "HttpError"
             /\ record_error' = "none"
                   => /\ (t \o "_result") \in DOMAIN books'[current_test_id]
                      /\ LET page == books'[current_test_id][t \o "_result"]
                         IN  page[Len(page)] = ResultRow("u1", now, OneAnswer)
                      /\ StoredRows(books') > StoredRows(books)]_vars

\* C18 witness: the spreadsheet went away after the header of a new page was
\* written: the call raised and the page holds the header only.
C18_Witness ==
    /\ record_error = "HttpError"
    /\ \E b \in SourceIds :
          /\ "T1_result" \in DOMAIN books[b]
          /\ Len(books[b]["T1_result"]) = 1

-----------------------------------------------------------------------------
(* Claims about the saved tests (specification SpecStore). *)

\* C15: after _save_test(name, test), for every name and test, loading the
\* name returns a question list equal to test.
C15_SaveThenLoad ==
    [][\A n \in StoreNames, t \in StoreTests :
          save_test(n, t) =>
              /\ n \in DOMAIN surveys'
              /\ ReadSurvey(surveys', n) = t]_vars

-----------------------------------------------------------------------------
(* Claims about the row-keyed sheet (specification SpecTable). *)

\* The row the claimed precedence selects: a row with the key, else the first
\* blank row, else the row after the last occupied one.
ClaimedRowNumber(sheet_values, key) ==
    IF \E i \in 1..Len(sheet_values) : sheet_values[i] = <<key>>
      THEN ListIndex(sheet_values, <<key>>)
    ELSE IF \E i \in 1..Len(sheet_values) : sheet_values[i] = <<>>
      THEN ListIndex(sheet_values, <<>>)
    ELSE Len(sheet_values) + 1

\* C7: add_row writes to the row that already has the key, even when a blank
\* row lies above it; only without such a row to the first blank row; only
\* without either to the row after the last occupied one.  (Stated for the
\* sheets whose header row is as created.)
C7_MatchBeforeBlank ==
    sheet[1] = NewSheet[1] =>
        \A key \in Keys :
            AddRowNumber(FirstColumnValues(sheet), key)
                = ClaimedRowNumber(FirstColumnValues(sheet), key)

\* C8: no two rows of the sheet with a non-blank first cell share that cell.
\* (Stated for the sheets whose header row is as created.)
C8_UniqueKeys ==
    sheet[1] = NewSheet[1] =>
        \A i, j \in 1..MaxRows :
            (i # j /\ sheet[i][1] # "") => sheet[i][1] # sheet[j][1]

\* C9: add_row is idempotent: from every reachable sheet, a second add_row of
\* the same row targets the row number the first one wrote and leaves the
\* sheet as the first call left it.
C9_AddRowIdempotent ==
    \A row \in RowInputs :
        (/\ Len(row) > 0
         /\ HasValues(sheet)
         /\ AddRowNumber(FirstColumnValues(sheet), row[1]) <= MaxRows)
        => LET once == AddRowGrid(sheet, row)
           IN  /\ HasValues(once)
               /\ AddRowNumber(FirstColumnValues(once), row[1])
                     = AddRowNumber(FirstColumnValues(sheet), row[1])
               /\ AddRowGrid(once, row) = once

\* C9 witness: add_row has written the row of key k1 below the header.
C9_Witness ==
    /\ ret = Outcome("add_row", "None")
    /\ sheet[1][1] = "id"
    /\ sheet[2] = <<"k1", "x", "", "">>

\* C10: remove_row of a key no row has returns False and leaves the sheet
\* unchanged; of a key some row has returns True and blanks the first
\* len(attributes) cells of exactly that row, every other row unchanged.
C10_RemoveRowFrame ==
    [][\A key \in Keys \ {""} :
          remove_row(key) =>
              IF \A i \in 1..MaxRows : sheet[i][1] # key
                THEN ret' = Outcome("remove_row", "False") /\ sheet' = sheet
                ELSE /\ ret' = Outcome("remove_row", "True")
                     /\ \E n \in 1..MaxRows :
                           /\ sheet[n][1] = key
                           /\ \A c \in 1..Len(SheetAttributes) : sheet'[n][c] = ""
                           /\ \A c \in (Len(SheetAttributes) + 1)..Width :
                                 sheet'[n][c] = sheet[n][c]
                           /\ \A m \in 1..MaxRows : m # n => sheet'[m] = sheet[m]]_vars

\* The dict of attribute -> cell of row n of the sheet.
RowMapping(n) ==
    [a \in {SheetAttributes[k] : k \in 1..Len(SheetAttributes)} |->
        sheet[n][ListIndex(SheetAttributes, a)]]

\* C11: get_row_by_first_element never raises: it returns the mapping of
\* attribute to cell of a data row whose first cell is the key, and the empty
\* mapping when no data row has the key.
C11_GetRowNeverRaises ==
    [][\A key \in Keys \ {""} :
          get_row_by_first_element(key) =>
              /\ ret'.result = "dict"
              /\ IF \E n \in 2..MaxRows : sheet[n][1] = key
                   THEN \E n \in 2..MaxRows : sheet[n][1] = key /\ ret'.row = RowMapping(n)
                   ELSE ret'.row = NoRow]_vars

\* C22: add_row and remove_row never write to row 1, the header row, whatever
\* the key: the row number of every write they make is at least 2.
C22_HeaderNeverWritten ==
    [][/\ \A row \in RowInputs :
            (add_row(row) /\ ret' = Outcome("add_row", "None"))
                => AddRowNumber(FirstColumnValues(sheet), row[1]) >= 2
       /\ \A key \in Keys :
            (remove_row(key) /\ ret' = Outcome("remove_row", "True"))
                => RemoveRowNumber(FirstColumnValues(sheet), key) >= 2]_vars

-----------------------------------------------------------------------------
(* Claims about concurrent calls on the sheet (specification SpecRace). *)

\* C21: add_row calls race.  When two callers' calls, with different keys,
\* have computed the same row number and one of them has written and
\* returned, the other's write goes to the row the first wrote: the first
\* caller's key stood there, the second caller's key replaces it, and no row
\* of the sheet has the first caller's key: its row is lost.
C21_LaterWriteOverwrites ==
    [][\A c, d \in Callers :
          (/\ c # d
           /\ pending[c].pc = "done" /\ pending[c].result = "None"
           /\ pending[d].pc = "read"
           /\ pending[c].row[1] # pending[d].row[1]
           /\ pending[c].row_number = pending[d].row_number
           /\ add_row_write(d))
          => /\ sheet[pending[c].row_number][1] = pending[c].row[1]
             /\ sheet'[pending[c].row_number][1] = pending[d].row[1]
             /\ \A i \in 1..MaxRows : sheet'[i][1] # pending[c].row[1]]_vars

\* C21 witness: both callers have returned from add_row, one with key k1 and
\* one with key k2, both having written row 2, and the sheet has no row k1.
C21_Witness ==
    /\ \A c \in Callers : pending[c].pc = "done" /\ pending[c].result = "None"
    /\ pending["c1"].row = <<"k1", "x">> /\ pending["c2"].row = <<"k2", "y">>
    /\ pending["c1"].row_number = 2 /\ pending["c2"].row_number = 2
    /\ sheet[2][1] = "k2"
    /\ \A i \in 1..MaxRows : sheet[i][1] # "k1"

-----------------------------------------------------------------------------
(* Claims about provisioning (specification SpecProvision). *)

\* The requests a step added to the backend's log.
AddedRequests == SubSeq(requests', Len(requests) + 1, Len(requests'))

\* The requests that provision the schema in spreadsheet `id`: every sheet
\* once, last-declared first, each creation followed at once by the write of
\* that sheet's header row from the schema, then the permission grant.
ProvisionsSchema(added, id) ==
    LET n == Len(sheet_attributes)
    IN  /\ Len(added) = 2 * n + 1
        /\ \A k \in 1..n :
              /\ added[2 * k - 1].op = (IF k = 1 THEN "create" ELSE "addSheet")
              /\ added[2 * k - 1].sheet = sheet_attributes[n + 1 - k].title
              /\ added[2 * k].op = "header"
              /\ added[2 * k].sheet = sheet_attributes[n + 1 - k].title
              /\ added[2 * k].values = sheet_attributes[n + 1 - k].attributes
        /\ added[2 * n + 1].op = "permissions"
        /\ \A i \in 1..(2 * n + 1) : added[i].spreadsheet = id

\* C16 (as stated): every call of create_spreadsheet on a handler with a
\* schema of n >= 1 sheets returns after creating every declared sheet
\* exactly once, last-declared first, each creation followed at once by the
\* write of that sheet's header row.
C16_EveryCallProvisions ==
    [][\A t \in SpreadsheetTitles, r \in RowCounts :
          create_spreadsheet(t, r, ColumnCount)
          => /\ ret' = Outcome("create_spreadsheet", "None")
             /\ ProvisionsSchema(AddedRequests, CurrentSpreadsheet(requests) + 1)]_vars

\* C16 (amended): the first call of create_spreadsheet on a handler (it has
\* created nothing yet) returns after creating every sheet of the schema
\* exactly once, last-declared first, each creation followed at once by the
\* write of that sheet's header row from the schema.
C16_ReverseOrderOnce ==
    [][\A t \in SpreadsheetTitles, r \in RowCounts :
          (create_spreadsheet(t, r, ColumnCount) /\ created_sheets = <<>>)
          => LET n == Len(sheet_attributes)
             IN  /\ ret' = Outcome("create_spreadsheet", "None")
                 /\ created_sheets' = [k \in 1..n |-> sheet_attributes[n + 1 - k].title]
                 /\ Len(AddedRequests) = 2 * n + 1
                 /\ \A k \in 1..n :
                       /\ AddedRequests[2 * k - 1].op
                             = (IF k = 1 THEN "create" ELSE "addSheet")
                       /\ AddedRequests[2 * k - 1].sheet = sheet_attributes[n + 1 - k].title
                       /\ AddedRequests[2 * k].op = "header"
                       /\ AddedRequests[2 * k].sheet = sheet_attributes[n + 1 - k].title
                       /\ AddedRequests[2 * k].values
                             = sheet_attributes[n + 1 - k].attributes
                 /\ AddedRequests[2 * n + 1].op = "permissions"
                 /\ \A i \in 1..(2 * n + 1) : AddedRequests[i].spreadsheet = 1]_vars

\* C16 witness: a schema declaring s1, s2, s3 in this order was provisioned:
\* s3 came first and s1 last.
C16_Witness ==
    /\ ret = Outcome("create_spreadsheet", "None")
    /\ Len(sheet_attributes) = 3
    /\ sheet_attributes[1].title = "s1"
    /\ sheet_attributes[3].title = "s3"
    /\ created_sheets = <<"s3", "s2", "s1">>
    /\ Len(requests) = 7

=============================================================================
